---- MODULE Spec2Model ----
(***************************************************************************)
(* react-minimal-tetris: the Board value type (core/Board.ts), the piece   *)
(* catalog and timing constants (core/constants.ts) and the game state     *)
(* machine of the useGameLogic hook (hooks/useGameLogic.ts): the keydown   *)
(* handler, the requestAnimationFrame game loop, createNewFalling and      *)
(* attemptRotation.                                                        *)
(*                                                                         *)
(* A Board is a Map from "x,y" keys to colours; here a function from       *)
(* <<x, y>> to a colour.  Board | null is a record with an isNull tag.     *)
(*                                                                         *)
(* Time.  The code compares timestamps only by difference, so the model    *)
(* keeps differences.  The Falling field sinceFall stands for              *)
(* (current time) - timeSinceFall; a frame carries its deltaTime d, first  *)
(* ages the state by d (Aged) and then runs the loop body on it, so        *)
(* "currentTime - prev.timeSinceFall" reads sinceFall of the aged state,   *)
(* "timeSinceFall: currentTime" and "timeSinceFall: performance.now()"     *)
(* are sinceFall = 0, and "return prev" returns the aged state.  Key       *)
(* events are handled at the time of the latest frame.  lastTimeRef is     *)
(* "null" or "set": only deltaTime is read from it.  lastStageSwitch is    *)
(* written but never read by the code and is left out.                     *)
(*                                                                         *)
(* Math.random.  A call createNewFalling(board, metrics) inside a state    *)
(* updater is returned by the updater's operator as Spawn(board); the      *)
(* action that runs the updater resolves it (Resolved) to                  *)
(* createNewFalling(board, idx, rotations) for every draw of idx and       *)
(* rotations.                                                              *)
(***************************************************************************)
EXTENDS Integers, Sequences, FiniteSets, TLC

\* The hook's state, how many falling pieces have ended, and the tick time
\* that has elapsed since the state became Flashing (counted no further
\* than the animation's own clock).
VARIABLES gameState, lastTimeRef, flashAccumulatorRef, locks, flashTime

\* Board objects on which a Board method is called directly (BoardSpec): the
\* contents of the receiver and of the argument, the latest call with the
\* contents both had when it was made, and what it returned.
VARIABLES thisBoard, otherBoard, call, returned

gameVars == <<gameState, lastTimeRef, flashAccumulatorRef, locks, flashTime>>

boardVars == <<thisBoard, otherBoard, call, returned>>

vars == <<gameVars, boardVars>>

(***************************************************************************)
(* core/constants.ts                                                       *)
(***************************************************************************)
boardX == 8

boardY == 20

FALL_INTERVAL == 700

FLASH_DURATION == 50

FLASH_STAGES == 18

Piece(cells, color) == [p \in cells |-> color]

POSSIBLE_PIECES ==
    << Piece({<<0, 0>>, <<0, 1>>, <<1, 0>>, <<1, 1>>}, "Red"),
       Piece({<<0, 0>>, <<1, 0>>, <<2, 0>>, <<1, 1>>}, "Green"),
       Piece({<<0, 0>>, <<1, 0>>, <<2, 0>>, <<3, 0>>}, "Blue"),
       Piece({<<0, 0>>, <<1, 0>>, <<2, 0>>, <<0, 1>>}, "Orange"),
       Piece({<<0, 0>>, <<1, 0>>, <<2, 0>>, <<2, 1>>}, "Yellow"),
       Piece({<<1, 0>>, <<2, 0>>, <<0, 1>>, <<1, 1>>}, "Cyan"),
       Piece({<<0, 0>>, <<1, 0>>, <<1, 1>>, <<2, 1>>}, "Magenta") >>

MoveKeys == {"ArrowRight", "ArrowLeft", "ArrowDown"}

\* Faulty variant of MOVE_DIRECTIONS: ArrowLeft carries ArrowRight's vector.
MOVE_DIRECTIONS_LeftAsRight ==
    [k \in MoveKeys |->
        CASE k = "ArrowRight" -> <<1, 0>>
          [] k = "ArrowLeft"  -> <<1, 0>>
          [] k = "ArrowDown"  -> <<0, 1>>]

MOVE_DIRECTIONS ==
    [k \in MoveKeys |->
        CASE k = "ArrowRight" -> <<1, 0>>
          [] k = "ArrowLeft"  -> <<-1, 0>>
          [] k = "ArrowDown"  -> <<0, 1>>]

(***************************************************************************)
(* core/Board.ts                                                           *)
(***************************************************************************)
EmptyBoard == [p \in {} |-> "Red"]

Null == [isNull |-> TRUE]

NonNull(b) == [isNull |-> FALSE, board |-> b]

transposed(b) ==
    [q \in {<<p[2], p[1]>> : p \in DOMAIN b} |-> b[<<q[2], q[1]>>]]

mirroredY(b) ==
    [q \in {<<p[1], -p[2]>> : p \in DOMAIN b} |-> b[<<q[1], -q[2]>>]]

\* Faulty variant of rotated: "this.transposed().mirroredY()".
rotatedMirrorLast(b) == mirroredY(transposed(b))

rotated(b) == transposed(mirroredY(b))

\* Faulty variant of rotatedCounter: two quarter turns.
rotatedCounterTwice(b) == rotated(rotated(b))

rotatedCounter(b) == rotated(rotated(rotated(b)))

Min2(a, b) == IF a < b THEN a ELSE b

RECURSIVE MinOver(_, _, _)
MinOver(ps, i, acc) ==
    IF ps = {} THEN acc
    ELSE LET p == CHOOSE q \in ps : TRUE
         IN  MinOver(ps \ {p}, i, Min2(acc, p[i]))

\* Faulty variant of negativeShift: the minima are never lowered from
\* their initial [0, 0].
negativeShiftNone(b) == <<0, 0>>

negativeShift(b) == <<MinOver(DOMAIN b, 1, 0), MinOver(DOMAIN b, 2, 0)>>

shifted(b, shift) ==
    [q \in {<<p[1] + shift[1], p[2] + shift[2]>> : p \in DOMAIN b} |->
        b[<<q[1] - shift[1], q[2] - shift[2]>>]]

\* Faulty variant of merged: no collision test, the receiver's cell wins.
mergedOverwriting(b, other) == NonNull(b @@ other)

merged(b, other) ==
    IF \E key \in DOMAIN other : key \in DOMAIN b
    THEN Null
    ELSE NonNull(b @@ other)

\* Faulty variant of contained: "x <= boardX", the right edge off by one.
containedInclusive(b, bx, by) ==
    \A pos \in DOMAIN b :
        pos[1] >= 0 /\ pos[1] <= bx /\ pos[2] >= 0 /\ pos[2] < by

contained(b, bx, by) ==
    \A pos \in DOMAIN b :
        pos[1] >= 0 /\ pos[1] < bx /\ pos[2] >= 0 /\ pos[2] < by

\* Faulty variant of wholeLines: ".some(Boolean)" for ".every(Boolean)".
wholeLinesSome(b, bx, by) ==
    SelectSeq([i \in 1..by |-> i - 1],
              LAMBDA y : \E x \in 0..(bx - 1) : <<x, y>> \in DOMAIN b)

wholeLines(b, bx, by) ==
    SelectSeq([i \in 1..by |-> i - 1],
              LAMBDA y : \A x \in 0..(bx - 1) : <<x, y>> \in DOMAIN b)

\* Faulty variant of killLineTarget: the rows after y move up, the rows
\* before it stay.
killLineTargetUp(pos, y) ==
    IF pos[2] < y THEN pos ELSE <<pos[1], pos[2] - 1>>

\* Faulty variant of killLineTarget: every kept row moves down, the rows
\* after y too.
killLineTargetAll(pos, y) == <<pos[1], pos[2] + 1>>

killLineTarget(pos, y) ==
    IF pos[2] > y THEN pos ELSE <<pos[1], pos[2] + 1>>

killLine(b, y) ==
    LET kept == {pos \in DOMAIN b : pos[2] # y}
    IN  [q \in {killLineTarget(pos, y) : pos \in kept} |->
            b[CHOOSE pos \in kept : killLineTarget(pos, y) = q]]

\* A method call on Board objects: what it returns and the contents of the
\* receiver and of the argument when it returns.

\* Faulty variant of mergedCall: "const newMap = this.map", a successful
\* merge is written to the receiver's own Map.
mergedCallAliased(this, other) ==
    [returned |-> merged(this, other),
     this |-> IF merged(this, other).isNull THEN this ELSE this @@ other,
     other |-> other]

\* merged writes to newMap only, a copy of this.map (line 96).
mergedCall(this, other) ==
    [returned |-> merged(this, other), this |-> this, other |-> other]

\* Faulty variant of killLineCall: the cleared row is deleted from the
\* receiver too.
killLineCallDeleting(this, y) ==
    [returned |-> NonNull(killLine(this, y)),
     this |-> [pos \in {q \in DOMAIN this : q[2] # y} |-> this[pos]]]

\* killLine writes to the new Board of modifiedFilter only (lines 56-63).
killLineCall(this, y) ==
    [returned |-> NonNull(killLine(this, y)), this |-> this]

(***************************************************************************)
(* hooks/useGameLogic.ts                                                   *)
(***************************************************************************)
GameOverState(board) == [type |-> "GameOver", board |-> board]

\* Faulty variant of FlashingState: only the first complete row is recorded.
FlashingStateFirstLine(board, lines) ==
    [type |-> "Flashing", board |-> board, stage |-> 0, lines |-> <<lines[1]>>]

FlashingState(board, lines) ==
    [type |-> "Flashing", board |-> board, stage |-> 0, lines |-> lines]

Spawn(board) == [type |-> "Spawn", board |-> board]

\* Faulty variant of spawnRotations: every rotation is taken, fitting or
\* not.
RECURSIVE spawnRotationsUntested(_, _, _, _)
spawnRotationsUntested(board, falling, shift, todo) ==
    IF todo = 0 THEN <<falling, shift>>
    ELSE
      LET rot == rotatedCounter(falling)
          ns == negativeShift(rot)
          adjusted == shifted(rot, <<-ns[1], -ns[2]>>)
      IN  spawnRotationsUntested(board, adjusted, shift, todo - 1)

RECURSIVE spawnRotations(_, _, _, _)
spawnRotations(board, falling, shift, todo) ==
    IF todo = 0 THEN <<falling, shift>>
    ELSE
      LET rot == rotatedCounter(falling)
          ns == negativeShift(rot)
          adjusted == shifted(rot, <<-ns[1], -ns[2]>>)
          fits(d) ==
            LET testShift == <<shift[1] + d[1], shift[2] + d[2]>>
                testFalling == shifted(adjusted, testShift)
            IN  /\ ~merged(board, testFalling).isNull
                /\ contained(testFalling, boardX, boardY)
      IN  IF fits(<<0, 0>>)
          THEN spawnRotations(board, adjusted, shift, todo - 1)
          ELSE IF fits(<<-1, 0>>)
          THEN spawnRotations(board, adjusted,
                              <<shift[1] - 1, shift[2]>>, todo - 1)
          ELSE spawnRotations(board, falling, shift, todo - 1)

\* Faulty variant of createNewFalling: the initial placement is not tested.
createNewFallingUnchecked(board, idx, rotations) ==
    LET r == spawnRotations(board, POSSIBLE_PIECES[idx], <<0, 0>>, rotations)
    IN  [type |-> "Falling", board |-> board, falling |-> r[1],
         shift |-> r[2], sinceFall |-> 0]

createNewFalling(board, idx, rotations) ==
    LET falling == POSSIBLE_PIECES[idx]
        shift == <<0, 0>>
        initialShifted == shifted(falling, shift)
    IN  IF \/ merged(board, initialShifted).isNull
           \/ ~contained(initialShifted, boardX, boardY)
        THEN GameOverState(board)
        ELSE LET r == spawnRotations(board, falling, shift, rotations)
             IN  [type |-> "Falling", board |-> board, falling |-> r[1],
                  shift |-> r[2], sinceFall |-> 0]

\* Faulty variant of attemptRotation: the kick offsets are tried in the
\* order [-1, 0], [0, 0].
attemptRotationKickFirst(state, clockwise) ==
    LET rot == IF clockwise THEN rotated(state.falling)
               ELSE rotatedCounter(state.falling)
        ns == negativeShift(rot)
        adjusted == shifted(rot, <<-ns[1], -ns[2]>>)
        fits(d) ==
          LET testShift == <<state.shift[1] + d[1], state.shift[2] + d[2]>>
              testFalling == shifted(adjusted, testShift)
          IN  /\ ~merged(state.board, testFalling).isNull
              /\ contained(testFalling, boardX, boardY)
    IN  IF fits(<<-1, 0>>)
        THEN [state EXCEPT !.falling = adjusted,
                           !.shift = <<state.shift[1] - 1, state.shift[2]>>]
        ELSE IF fits(<<0, 0>>)
        THEN [state EXCEPT !.falling = adjusted]
        ELSE state

\* Faulty variant of attemptRotation: an accepted rotation sets
\* timeSinceFall to the time of the key press.
attemptRotationResetsFall(state, clockwise) ==
    LET rot == IF clockwise THEN rotated(state.falling)
               ELSE rotatedCounter(state.falling)
        ns == negativeShift(rot)
        adjusted == shifted(rot, <<-ns[1], -ns[2]>>)
        fits(d) ==
          LET testShift == <<state.shift[1] + d[1], state.shift[2] + d[2]>>
              testFalling == shifted(adjusted, testShift)
          IN  /\ ~merged(state.board, testFalling).isNull
              /\ contained(testFalling, boardX, boardY)
    IN  IF fits(<<0, 0>>)
        THEN [state EXCEPT !.falling = adjusted, !.sinceFall = 0]
        ELSE IF fits(<<-1, 0>>)
        THEN [state EXCEPT !.falling = adjusted,
                           !.shift = <<state.shift[1] - 1, state.shift[2]>>,
                           !.sinceFall = 0]
        ELSE state

attemptRotation(state, clockwise) ==
    LET rot == IF clockwise THEN rotated(state.falling)
               ELSE rotatedCounter(state.falling)
        ns == negativeShift(rot)
        adjusted == shifted(rot, <<-ns[1], -ns[2]>>)
        fits(d) ==
          LET testShift == <<state.shift[1] + d[1], state.shift[2] + d[2]>>
              testFalling == shifted(adjusted, testShift)
          IN  /\ ~merged(state.board, testFalling).isNull
              /\ contained(testFalling, boardX, boardY)
    IN  IF fits(<<0, 0>>)
        THEN [state EXCEPT !.falling = adjusted]
        ELSE IF fits(<<-1, 0>>)
        THEN [state EXCEPT !.falling = adjusted,
                           !.shift = <<state.shift[1] - 1, state.shift[2]>>]
        ELSE state

\* Faulty variant of killLines: the rows are killed in descending order.
killLinesDescending(board, lines) ==
    LET RECURSIVE go(_, _)
        go(b, i) == IF i < 1 THEN b ELSE go(killLine(b, lines[i]), i - 1)
    IN  go(board, Len(lines))

killLines(board, lines) ==
    LET RECURSIVE go(_, _)
        go(b, i) == IF i > Len(lines) THEN b ELSE go(killLine(b, lines[i]), i + 1)
    IN  go(board, 1)

\* Lines 179-202: the piece is merged at its current shift; complete rows
\* start the flash, otherwise a new piece is spawned.
lockOnKeyDown(state) ==
    LET mergedBoard == merged(state.board, shifted(state.falling, state.shift))
    IN  IF ~mergedBoard.isNull
        THEN
          LET lines == wholeLines(mergedBoard.board, boardX, boardY)
          IN  IF Len(lines) > 0
              THEN FlashingState(mergedBoard.board, lines)
              ELSE Spawn(mergedBoard.board)
        ELSE state

\* Faulty variant of movePiece: the move is tested against a field one
\* row short.
movePieceShortField(state, move) ==
    LET newShift == <<state.shift[1] + move[1], state.shift[2] + move[2]>>
        shiftedP == shifted(state.falling, newShift)
        mergedP == merged(state.board, shiftedP)
        containedP == contained(shiftedP, boardX, boardY - 1)
    IN  IF ~mergedP.isNull /\ containedP
        THEN [state EXCEPT !.shift = newShift]
        ELSE IF move[2] = 1
        THEN lockOnKeyDown(state)
        ELSE state

\* Faulty variant of movePiece: an accepted move sets timeSinceFall to the
\* time of the key press.
movePieceRestartsTimer(state, move) ==
    LET newShift == <<state.shift[1] + move[1], state.shift[2] + move[2]>>
        shiftedP == shifted(state.falling, newShift)
        mergedP == merged(state.board, shiftedP)
        containedP == contained(shiftedP, boardX, boardY)
    IN  IF ~mergedP.isNull /\ containedP
        THEN [state EXCEPT !.shift = newShift, !.sinceFall = 0]
        ELSE IF move[2] = 1
        THEN lockOnKeyDown(state)
        ELSE state

\* Lines 161-203: "if (move) { ... }" of the Falling case.
movePiece(state, move) ==
    LET newShift == <<state.shift[1] + move[1], state.shift[2] + move[2]>>
        shiftedP == shifted(state.falling, newShift)
        mergedP == merged(state.board, shiftedP)
        containedP == contained(shiftedP, boardX, boardY)
    IN  IF ~mergedP.isNull /\ containedP
        THEN [state EXCEPT !.shift = newShift]
        ELSE IF move[2] = 1
        THEN lockOnKeyDown(state)
        ELSE state

\* Faulty variant of gameOverKeyDown: Restart spawns on the board of the
\* finished game.
gameOverKeyDownSameBoard(state, key) ==
    IF key = "Enter"
    THEN Spawn(state.board)
    ELSE state

\* Faulty variant of gameOverKeyDown: any key restarts the game.
gameOverKeyDownAnyKey(state, key) == Spawn(EmptyBoard)

\* Lines 216-221: the GameOver case.
gameOverKeyDown(state, key) ==
    IF key = "Enter"
    THEN Spawn(EmptyBoard)
    ELSE state

\* Faulty variant of handleKeyDown: Restart is obeyed in every state.
handleKeyDownSkipsFlash(state, key) ==
    IF key = "Enter"
    THEN Spawn(EmptyBoard)
    ELSE
      CASE state.type = "Falling" ->
             IF key \in MoveKeys THEN movePiece(state, MOVE_DIRECTIONS[key])
             ELSE IF key = "ArrowUp" THEN attemptRotation(state, FALSE)
             ELSE IF key = " " THEN attemptRotation(state, TRUE)
             ELSE state
        [] state.type = "GameOver" -> gameOverKeyDown(state, key)
        [] OTHER -> state

handleKeyDown(state, key) ==
    CASE state.type = "Falling" ->
           IF key \in MoveKeys THEN movePiece(state, MOVE_DIRECTIONS[key])
           ELSE IF key = "ArrowUp" THEN attemptRotation(state, FALSE)
           ELSE IF key = " " THEN attemptRotation(state, TRUE)
           ELSE state
      [] state.type = "GameOver" -> gameOverKeyDown(state, key)
      [] OTHER -> state

\* The values of <<idx, rotations>> that the two Math.random calls of
\* createNewFalling can give; NoDraw when createNewFalling is not called.
Draws == (1..Len(POSSIBLE_PIECES)) \X (0..3)

NoDraw == <<0, 0>>

DrawsOf(result) == IF result.type = "Spawn" THEN Draws ELSE {NoDraw}

\* What an updater returns when its createNewFalling call, if it makes
\* one, draws draw.
Resolved(result, draw) ==
    IF result.type = "Spawn"
    THEN createNewFalling(result.board, draw[1], draw[2])
    ELSE result

Aged(state, d) ==
    IF state.type = "Falling"
    THEN [state EXCEPT !.sinceFall = @ + d]
    ELSE state

\* Faulty variant of lockOnFrame: the piece is not locked, it waits where
\* it is for the next fall interval.
lockOnFrameWaits(state, acc) == <<[state EXCEPT !.sinceFall = 0], acc>>

\* Faulty variant of lockOnFrame: the piece is merged one row further
\* down, where the gravity step was rejected.
lockOnFrameBelow(state, acc) ==
    LET mergedBoard == merged(state.board,
                              shifted(state.falling,
                                      <<state.shift[1], state.shift[2] + 1>>))
    IN  IF ~mergedBoard.isNull
        THEN
          LET lines == wholeLines(mergedBoard.board, boardX, boardY)
          IN  IF Len(lines) > 0
              THEN <<FlashingState(mergedBoard.board, lines), 0>>
              ELSE <<Spawn(mergedBoard.board), acc>>
        ELSE <<GameOverState(state.board), acc>>

\* Lines 273-297: the gravity step was rejected.  The result pairs the new
\* state with the new flashAccumulatorRef.current.
lockOnFrame(state, acc) ==
    LET mergedBoard == merged(state.board, shifted(state.falling, state.shift))
    IN  IF ~mergedBoard.isNull
        THEN
          LET lines == wholeLines(mergedBoard.board, boardX, boardY)
          IN  IF Len(lines) > 0
              THEN <<FlashingState(mergedBoard.board, lines), 0>>
              ELSE <<Spawn(mergedBoard.board), acc>>
        ELSE <<GameOverState(state.board), acc>>

\* Faulty variant of fallingFrame: an accepted gravity step keeps the old
\* timeSinceFall ("timeSinceFall: currentTime" forgotten).
fallingFrameNoReset(state, acc) ==
    IF state.sinceFall >= FALL_INTERVAL
    THEN
      LET newShift == <<state.shift[1], state.shift[2] + 1>>
          shiftedP == shifted(state.falling, newShift)
          mergedP == merged(state.board, shiftedP)
          containedP == contained(shiftedP, boardX, boardY)
      IN  IF ~mergedP.isNull /\ containedP
          THEN <<[state EXCEPT !.shift = newShift], acc>>
          ELSE lockOnFrame(state, acc)
    ELSE <<state, acc>>

\* Lines 256-299: the Falling case of the updater, on the state aged by
\* deltaTime.
\* Faulty variant of fallingFrame: the piece goes down one row for every
\* FALL_INTERVAL elapsed, two rows after a long frame.
fallingFrameTwoRows(state, acc) ==
    IF state.sinceFall >= FALL_INTERVAL
    THEN
      LET rows == IF state.sinceFall >= 2 * FALL_INTERVAL THEN 2 ELSE 1
          newShift == <<state.shift[1], state.shift[2] + rows>>
          shiftedP == shifted(state.falling, newShift)
          mergedP == merged(state.board, shiftedP)
          containedP == contained(shiftedP, boardX, boardY)
      IN  IF ~mergedP.isNull /\ containedP
          THEN <<[state EXCEPT !.shift = newShift, !.sinceFall = 0], acc>>
          ELSE lockOnFrame(state, acc)
    ELSE <<state, acc>>

fallingFrame(state, acc) ==
    IF state.sinceFall >= FALL_INTERVAL
    THEN
      LET newShift == <<state.shift[1], state.shift[2] + 1>>
          shiftedP == shifted(state.falling, newShift)
          mergedP == merged(state.board, shiftedP)
          containedP == contained(shiftedP, boardX, boardY)
      IN  IF ~mergedP.isNull /\ containedP
          THEN <<[state EXCEPT !.shift = newShift, !.sinceFall = 0], acc>>
          ELSE lockOnFrame(state, acc)
    ELSE <<state, acc>>

\* Faulty variant of flashingFrame: "stage <= FLASH_STAGES", one stage too
\* many.
flashingFrameOneMore(state, acc, deltaTime) ==
    LET sum == acc + deltaTime
    IN  IF sum >= FLASH_DURATION
        THEN
          LET stage == state.stage + 1
          IN  IF stage <= FLASH_STAGES
              THEN <<[state EXCEPT !.stage = stage], sum % FLASH_DURATION>>
              ELSE <<Spawn(killLines(state.board, state.lines)),
                     sum % FLASH_DURATION>>
        ELSE <<state, sum>>

\* Faulty variant of flashingFrame: the new piece is spawned on prev.board,
\* the killLine loop forgotten.
flashingFrameKeepsLines(state, acc, deltaTime) ==
    LET sum == acc + deltaTime
    IN  IF sum >= FLASH_DURATION
        THEN
          LET stage == state.stage + 1
          IN  IF stage < FLASH_STAGES
              THEN <<[state EXCEPT !.stage = stage], sum % FLASH_DURATION>>
              ELSE <<Spawn(state.board), sum % FLASH_DURATION>>
        ELSE <<state, sum>>

\* Faulty variant of flashingFrame: "stage % FLASH_STAGES", the animation
\* starts over after its last stage.
flashingFrameLoops(state, acc, deltaTime) ==
    LET sum == acc + deltaTime
    IN  IF sum >= FLASH_DURATION
        THEN <<[state EXCEPT !.stage = (state.stage + 1) % FLASH_STAGES],
               sum % FLASH_DURATION>>
        ELSE <<state, sum>>

\* Faulty variant of flashingFrame: one stage for every FLASH_DURATION
\* that the accumulator holds.
flashingFrameCatchesUp(state, acc, deltaTime) ==
    LET sum == acc + deltaTime
    IN  IF sum >= FLASH_DURATION
        THEN
          LET stage == state.stage + (sum \div FLASH_DURATION)
          IN  IF stage < FLASH_STAGES
              THEN <<[state EXCEPT !.stage = stage], sum % FLASH_DURATION>>
              ELSE <<Spawn(killLines(state.board, state.lines)),
                     sum % FLASH_DURATION>>
        ELSE <<state, sum>>

\* Lines 301-321: the Flashing case of the updater.
flashingFrame(state, acc, deltaTime) ==
    LET sum == acc + deltaTime
    IN  IF sum >= FLASH_DURATION
        THEN
          LET stage == state.stage + 1
          IN  IF stage < FLASH_STAGES
              THEN <<[state EXCEPT !.stage = stage], sum % FLASH_DURATION>>
              ELSE <<Spawn(killLines(state.board, state.lines)),
                     sum % FLASH_DURATION>>
        ELSE <<state, sum>>

\* The setGameState updater of gameLoop (lines 254-326), on the state aged
\* by deltaTime; the result pairs the new state with the new
\* flashAccumulatorRef.current.
frameUpdater(state, acc, deltaTime) ==
    CASE state.type = "Falling" -> fallingFrame(state, acc)
      [] state.type = "Flashing" -> flashingFrame(state, acc, deltaTime)
      [] OTHER -> <<state, acc>>

\* The requestAnimationFrame callback (lines 243-329), on the state aged by
\* the time since the previous callback (since mounting, for the first
\* one): the first callback only sets lastTimeRef.current (lines 245-249).
gameLoop(state, ref, acc, deltaTime) ==
    IF ref = "null"
    THEN <<state, acc>>
    ELSE frameUpdater(state, acc, deltaTime)

(***************************************************************************)
(* components/Game.tsx                                                     *)
(***************************************************************************)
\* Faulty variant of getRenderProps: the rows flash on even stages.
getRenderPropsEvenFlash(state) ==
    CASE state.type = "Falling" ->
           LET shiftedP == shifted(state.falling, state.shift)
               mergedP == merged(state.board, shiftedP)
           IN  [board |-> IF mergedP.isNull THEN state.board ELSE mergedP.board,
                drawEffect |-> [type |-> "None"]]
      [] state.type = "Flashing" ->
           [board |-> state.board,
            drawEffect |-> IF state.stage % 2 = 1
                           THEN [type |-> "None"]
                           ELSE [type |-> "Flash", lines |-> state.lines]]
      [] state.type = "GameOver" ->
           [board |-> state.board, drawEffect |-> [type |-> "Darker"]]

getRenderProps(state) ==
    CASE state.type = "Falling" ->
           LET shiftedP == shifted(state.falling, state.shift)
               mergedP == merged(state.board, shiftedP)
           IN  [board |-> IF mergedP.isNull THEN state.board ELSE mergedP.board,
                drawEffect |-> [type |-> "None"]]
      [] state.type = "Flashing" ->
           [board |-> state.board,
            drawEffect |-> IF state.stage % 2 = 0
                           THEN [type |-> "None"]
                           ELSE [type |-> "Flash", lines |-> state.lines]]
      [] state.type = "GameOver" ->
           [board |-> state.board, drawEffect |-> [type |-> "Darker"]]

(***************************************************************************)
(* Exploration.  The playfield is the program's 8 x 20; what is bounded is *)
(* how far the exploration follows the game: events are delivered to a     *)
(* falling piece while its shift has y <= MaxRow and fewer than MaxLocks   *)
(* pieces have ended (locks counts them), so the piece spawned after the   *)
(* MaxLocks-th one is reached but not moved.  Besides the state after      *)
(* mounting (empty board, lastTimeRef null), the exploration starts from   *)
(* mid-game boards.  Each is obtained by replaying a list of placements    *)
(* through createNewFalling and handleKeyDown from the empty board         *)
(* (Replay), so it is a board the program reaches by play.                 *)
(***************************************************************************)
MaxRow == 2

MaxLocks == 1

Keys == MoveKeys \cup {"ArrowUp", " ", "Enter", "Escape"}

\* The time a frame lets pass: since mounting for the first frame, since
\* the previous frame for the others.
FrameDeltas ==
    IF lastTimeRef = "null" THEN {350, 1050}
    ELSE IF gameState.type = "Flashing" THEN {25, 50, 125}
    ELSE {350, 700}

RECURSIVE Rights(_, _)
Rights(state, n) ==
    IF n = 0 THEN state ELSE Rights(handleKeyDown(state, "ArrowRight"), n - 1)

RECURSIVE Drop(_)
Drop(state) ==
    LET next == handleKeyDown(state, "ArrowDown")
    IN  IF next.type = "Falling" THEN Drop(next) ELSE next.board

\* placement = <<idx, rotations, number of ArrowRight>>, then ArrowDown
\* until the piece locks.
Place(board, placement) ==
    Drop(Rights(createNewFalling(board, placement[1], placement[2]), placement[3]))

RECURSIVE Replay(_, _, _)
Replay(board, placements, i) ==
    IF i > Len(placements) THEN board
    ELSE LET placed == Place(board, placements[i])
         IN  IF DOMAIN placed = {} THEN placed
             ELSE Replay(placed, placements, i + 1)

Times(n, placement) == [i \in 1..n |-> placement]

\* Columns 0-5 stacked with O pieces up to row 4, columns 6-7 left empty
\* under I pieces lying on columns 4-7 in rows 3..0; row 3 is full except
\* column 0 (a T, knob up, on columns 1-3).
BoardA ==
    Replay(EmptyBoard,
           Times(8, <<1, 0, 0>>) \o Times(8, <<1, 0, 2>>) \o Times(8, <<1, 0, 4>>)
           \o Times(4, <<3, 0, 4>>) \o << <<2, 2, 1>> >>, 1)

\* A well four deep in column 0 (rows 2-5): every other column is filled
\* in rows 2-5, and columns 6-7 are empty below row 5.
BoardB ==
    Replay(EmptyBoard,
           Times(7, <<1, 0, 0>>) \o Times(9, <<1, 0, 2>>) \o Times(7, <<1, 0, 4>>)
           \o << <<3, 1, 1>> >> \o Times(6, <<3, 0, 4>>), 1)

\* The same well, but row 4 has holes at columns 1 and 3 (under a J lying
\* on row 3) and row 2 is open at columns 2-3.
BoardC ==
    Replay(EmptyBoard,
           Times(7, <<1, 0, 0>>) \o Times(7, <<1, 0, 2>>) \o Times(7, <<1, 0, 4>>)
           \o Times(6, <<3, 0, 4>>) \o << <<2, 2, 1>>, <<5, 2, 1>> >>, 1)

MidGameBoards == {BoardA, BoardB, BoardC}

\* flashAccumulatorRef.current in mid-game: 0 after mounting and after a
\* flash that a gravity step started, and what "% FLASH_DURATION" left of
\* it at the end of the latest flash, here 0 or 25 (two I pieces laid on
\* row 19 of the empty board clear it and leave the empty board again).
Leftovers == {0, 25}

NoCall == [method |-> "none"]

\* No Board method is called outside the hook.
BoardsIdle ==
    /\ thisBoard = EmptyBoard
    /\ otherBoard = EmptyBoard
    /\ call = NoCall
    /\ returned = Null

Init ==
    /\ \E draw \in Draws :
          \/ /\ gameState = createNewFalling(EmptyBoard, draw[1], draw[2])
             /\ lastTimeRef = "null"
             /\ flashAccumulatorRef = 0
          \/ /\ \E b \in MidGameBoards :
                   gameState = createNewFalling(b, draw[1], draw[2])
             /\ lastTimeRef = "set"
             /\ flashAccumulatorRef \in Leftovers
    /\ locks = 0
    /\ flashTime = 0
    /\ BoardsIdle

Delivered ==
    gameState.type = "Falling" =>
        gameState.shift[2] <= MaxRow /\ locks < MaxLocks

\* The updater's result ends the falling piece's life.
Locks(result) == gameState.type = "Falling" /\ result.type # "Falling"

Counted(result) == locks' = IF Locks(result) THEN locks + 1 ELSE locks

\* flashTime after an event that lets d ms of tick time pass and leaves
\* acc in flashAccumulatorRef.current: the tick time spent in Flashing so
\* far.  It is counted no further than the animation's own clock,
\* FLASH_DURATION x stage + acc, which "% FLASH_DURATION" sets back after a
\* long frame: a tick adds to that clock at most what it adds to the time,
\* so the count is exact up to there, and the clock is past 18 x 50 when
\* the animation ends.
Timed(result, acc, d) ==
    flashTime' =
        IF gameState.type = "Flashing" /\ result.type = "Flashing"
        THEN Min2(flashTime + d, FLASH_DURATION * result.stage + acc)
        ELSE 0

KeyDown ==
    /\ Delivered
    /\ \E key \in Keys :
          LET result == handleKeyDown(gameState, key)
          IN  /\ Counted(result)
              /\ Timed(result, flashAccumulatorRef, 0)
              /\ \E draw \in DrawsOf(result) :
                    gameState' = Resolved(result, draw)
    /\ UNCHANGED <<lastTimeRef, flashAccumulatorRef>>
    /\ UNCHANGED boardVars

Frame ==
    /\ Delivered
    /\ \E d \in FrameDeltas :
          LET r == gameLoop(Aged(gameState, d), lastTimeRef,
                            flashAccumulatorRef, d)
          IN  /\ Counted(r[1])
              /\ Timed(r[1], r[2], d)
              /\ flashAccumulatorRef' = r[2]
              /\ \E draw \in DrawsOf(r[1]) : gameState' = Resolved(r[1], draw)
    /\ lastTimeRef' = "set"
    /\ UNCHANGED boardVars

Next == KeyDown \/ Frame

Spec == Init /\ [][Next]_vars

(***************************************************************************)
(* LiveSpec.  The same events from the same initial states, with the piece *)
(* followed all the way down: the pieces that follow the MaxLocks-th one   *)
(* are not moved.  Every callback of gameLoop requests the next animation  *)
(* frame (line 328), so frames keep coming as long as the component is     *)
(* mounted: Tick is weakly fair.  Nothing obliges the player to press a    *)
(* key.                                                                    *)
(***************************************************************************)
InPlay == gameState.type = "Falling" => locks < MaxLocks

Press ==
    /\ InPlay
    /\ \E key \in Keys :
          LET result == handleKeyDown(gameState, key)
          IN  /\ Counted(result)
              /\ Timed(result, flashAccumulatorRef, 0)
              /\ \E draw \in DrawsOf(result) :
                    gameState' = Resolved(result, draw)
    /\ UNCHANGED <<lastTimeRef, flashAccumulatorRef>>
    /\ UNCHANGED boardVars

Tick ==
    /\ InPlay
    /\ \E d \in FrameDeltas :
          LET r == gameLoop(Aged(gameState, d), lastTimeRef,
                            flashAccumulatorRef, d)
          IN  /\ Counted(r[1])
              /\ Timed(r[1], r[2], d)
              /\ flashAccumulatorRef' = r[2]
              /\ \E draw \in DrawsOf(r[1]) : gameState' = Resolved(r[1], draw)
    /\ lastTimeRef' = "set"
    /\ UNCHANGED boardVars

LiveNext == Press \/ Tick

LiveSpec == Init /\ [][LiveNext]_vars /\ WF_vars(Tick)

(***************************************************************************)
(* IdleSpec.  From the state after mounting, frames and no key at all,     *)
(* until the game is over.  The pieces are drawn among the first IdleKinds *)
(* draws of IdleOrder: the I piece turned once (upright, unless the turn   *)
(* does not fit), the O piece, the T piece turned once, the I piece as it  *)
(* is in the catalog.  Frames keep coming as in LiveSpec.                  *)
(***************************************************************************)
IdleKinds == 2

IdleOrder == << <<3, 1>>, <<1, 0>>, <<2, 1>>, <<3, 0>> >>

IdleDraws == {IdleOrder[i] : i \in 1..IdleKinds}

IdleInit ==
    /\ \E draw \in IdleDraws :
          gameState = createNewFalling(EmptyBoard, draw[1], draw[2])
    /\ lastTimeRef = "null"
    /\ flashAccumulatorRef = 0
    /\ locks = 0
    /\ flashTime = 0
    /\ BoardsIdle

IdleTick ==
    /\ \E d \in FrameDeltas :
          LET r == gameLoop(Aged(gameState, d), lastTimeRef,
                            flashAccumulatorRef, d)
          IN  /\ Counted(r[1])
              /\ Timed(r[1], r[2], d)
              /\ flashAccumulatorRef' = r[2]
              /\ \E draw \in DrawsOf(r[1]) \cap (IdleDraws \cup {NoDraw}) :
                    gameState' = Resolved(r[1], draw)
    /\ lastTimeRef' = "set"
    /\ UNCHANGED boardVars

IdleNext == IdleTick

IdleSpec == IdleInit /\ [][IdleNext]_vars /\ WF_vars(IdleTick)

(***************************************************************************)
(* DropSpec.  From the state after mounting, SoftDrop and no other event,  *)
(* down to the floor: every step is one SoftDrop command, and the pieces   *)
(* that follow the MaxLocks-th one are not moved.                          *)
(***************************************************************************)
DropInit ==
    /\ \E draw \in Draws :
          gameState = createNewFalling(EmptyBoard, draw[1], draw[2])
    /\ lastTimeRef = "null"
    /\ flashAccumulatorRef = 0
    /\ locks = 0
    /\ flashTime = 0
    /\ BoardsIdle

SoftDrop ==
    /\ gameState.type = "Falling"
    /\ locks < MaxLocks
    /\ LET result == handleKeyDown(gameState, "ArrowDown")
       IN  /\ Counted(result)
           /\ Timed(result, flashAccumulatorRef, 0)
           /\ \E draw \in DrawsOf(result) : gameState' = Resolved(result, draw)
    /\ UNCHANGED <<lastTimeRef, flashAccumulatorRef>>
    /\ UNCHANGED boardVars

DropNext == SoftDrop

DropSpec == DropInit /\ [][DropNext]_vars

(***************************************************************************)
(* BoardSpec.  Board methods called directly, the hook not mounted: the    *)
(* receiver and the argument are drawn from the boards on LabX columns and *)
(* as many rows as RowColours has colours; one of the two has at most two  *)
(* cells.  A call leaves the objects as the method leaves them, so that    *)
(* further calls are made on them.                                         *)
(***************************************************************************)
LabX == 2

RowColours == <<"Red", "Green", "Blue">>

LabCells == (0..(LabX - 1)) \X (0..(Len(RowColours) - 1))

\* Every set of cells, each cell in its row's colour.
LabBoards ==
    {[pos \in cells |-> RowColours[pos[2] + 1]] : cells \in SUBSET LabCells}

SmallBoards ==
    {[pos \in cells |-> "Yellow"] :
        cells \in {c \in SUBSET LabCells : Cardinality(c) <= 2}}

\* The rows killLine is called with: the board's rows, one before and one
\* after.
LabRows == (-1)..Len(RowColours)

NotMounted == [type |-> "NotMounted"]

BoardInit ==
    /\ \E pair \in (LabBoards \X SmallBoards) \cup (SmallBoards \X LabBoards) :
          /\ thisBoard = pair[1]
          /\ otherBoard = pair[2]
    /\ call = NoCall
    /\ returned = Null
    /\ gameState = NotMounted
    /\ lastTimeRef = "null"
    /\ flashAccumulatorRef = 0
    /\ locks = 0
    /\ flashTime = 0

\* thisBoard.merged(otherBoard)
CallMerged ==
    /\ LET r == mergedCall(thisBoard, otherBoard)
       IN  /\ returned' = r.returned
           /\ thisBoard' = r.this
           /\ otherBoard' = r.other
    /\ call' = [method |-> "merged", this |-> thisBoard,
                other |-> otherBoard, y |-> 0]
    /\ UNCHANGED gameVars

\* thisBoard.killLine(y)
CallKillLine ==
    /\ \E y \in LabRows :
          LET r == killLineCall(thisBoard, y)
          IN  /\ returned' = r.returned
              /\ thisBoard' = r.this
              /\ call' = [method |-> "killLine", this |-> thisBoard,
                          other |-> otherBoard, y |-> y]
    /\ UNCHANGED <<otherBoard, gameVars>>

\* thisBoard.rotated(): modified builds a new Board (lines 47-54).
CallRotated ==
    /\ returned' = NonNull(rotated(thisBoard))
    /\ call' = [method |-> "rotated", this |-> thisBoard,
                other |-> otherBoard, y |-> 0]
    /\ UNCHANGED <<thisBoard, otherBoard, gameVars>>

\* thisBoard.rotatedCounter()
CallRotatedCounter ==
    /\ returned' = NonNull(rotatedCounter(thisBoard))
    /\ call' = [method |-> "rotatedCounter", this |-> thisBoard,
                other |-> otherBoard, y |-> 0]
    /\ UNCHANGED <<thisBoard, otherBoard, gameVars>>

\* The boardX and boardY arguments of wholeLines: the whole grid, or
\* without its last column, or without its last row.
LabWidths == {LabX - 1, LabX}

LabHeights == {Len(RowColours) - 1, Len(RowColours)}

\* thisBoard.wholeLines(w, h)
CallWholeLines ==
    \E w \in LabWidths, h \in LabHeights :
        /\ returned' = [lines |-> wholeLines(thisBoard, w, h)]
        /\ call' = [method |-> "wholeLines", this |-> thisBoard,
                    other |-> otherBoard, y |-> 0, w |-> w, h |-> h]
        /\ UNCHANGED <<thisBoard, otherBoard, gameVars>>

BoardNext ==
    \/ CallMerged
    \/ CallKillLine
    \/ CallRotated
    \/ CallRotatedCounter
    \/ CallWholeLines

BoardSpec == BoardInit /\ [][BoardNext]_vars

(***************************************************************************)
(* Properties.  They are stated over cells, not through the Board methods: *)
(* a placement is legal when the piece's translated cells are free and     *)
(* inside the 8 x 20 playfield.  A property of an event is stated, in      *)
(* every reachable state, of what the event's handler returns there        *)
(* (KeyResult, TickResult) for every key and every frame the exploration   *)
(* delivers.                                                               *)
(***************************************************************************)
Plus(shift, delta) == <<shift[1] + delta[1], shift[2] + delta[2]>>

Cells(piece, shift) == {Plus(p, shift) : p \in DOMAIN piece}

InField(cells) ==
    \A c \in cells : 0 <= c[1] /\ c[1] < 8 /\ 0 <= c[2] /\ c[2] < 20

Legal(board, piece, shift) ==
    /\ Cells(piece, shift) \cap DOMAIN board = {}
    /\ InField(Cells(piece, shift))

\* The board plus the piece's cells at shift, old cells and colours kept.
WithPiece(board, piece, shift) ==
    [c \in DOMAIN board \cup Cells(piece, shift) |->
        IF c \in DOMAIN board THEN board[c]
        ELSE piece[<<c[1] - shift[1], c[2] - shift[2]>>]]

CompleteRows(board) ==
    {y \in 0..19 : \A x \in 0..7 : <<x, y>> \in DOMAIN board}

\* lines lists exactly rows, in ascending order.
ListsAscending(lines, rows) ==
    /\ Len(lines) = Cardinality(rows)
    /\ {lines[i] : i \in 1..Len(lines)} = rows
    /\ \A i \in 1..(Len(lines) - 1) : lines[i] < lines[i + 1]

\* The number of rows of lines that lie below row y.
DeletedBelow(lines, y) == Cardinality({i \in 1..Len(lines) : lines[i] > y})

\* The board with the rows of lines deleted and every other cell moved
\* down by the number of deleted rows below it: the cell found at <<x, r>>
\* afterwards is the cell of the one kept row y with y + DeletedBelow = r.
Cleared(board, lines) ==
    LET keptRows == {y \in {c[2] : c \in DOMAIN board} :
                        \A i \in 1..Len(lines) : y # lines[i]}
        target == [y \in keptRows |-> y + DeletedBelow(lines, y)]
        cells == {<<c[1], target[c[2]]>> :
                     c \in {d \in DOMAIN board : d[2] \in keptRows}}
    IN  [q \in cells |->
            board[<<q[1], CHOOSE y \in keptRows :
                             target[y] = q[2] /\ <<q[1], y>> \in DOMAIN board>>]]

Colours(piece) == {piece[c] : c \in DOMAIN piece}

LowestCoordinate(cells, i) ==
    CHOOSE m \in {c[i] : c \in cells} : \A c \in cells : m <= c[i]

\* The piece turned a quarter (clockwise: (x, y) -> (-y, x); counter-
\* clockwise: (x, y) -> (y, -x)) and moved so that its least x and its
\* least y are 0.
Turned(piece, clockwise) ==
    LET to(c) == IF clockwise THEN <<-c[2], c[1]>> ELSE <<c[2], -c[1]>>
        cells == {to(c) : c \in DOMAIN piece}
        mx == LowestCoordinate(cells, 1)
        my == LowestCoordinate(cells, 2)
    IN  [q \in {<<c[1] - mx, c[2] - my>> : c \in cells} |->
            piece[CHOOSE c \in DOMAIN piece :
                    <<to(c)[1] - mx, to(c)[2] - my>> = q]]

\* The piece and its three quarter turns.
Orientations(piece) ==
    LET once == Turned(piece, FALSE)
        twice == Turned(once, FALSE)
    IN  {piece, once, twice, Turned(twice, FALSE)}

Below(shift) == Plus(shift, <<0, 1>>)

\* What the keydown updater returns in this state for key.
KeyResult(key) == handleKeyDown(gameState, key)

\* What a frame that lets d ms pass returns in this state: the new state
\* and the new flash accumulator.
TickResult(d) ==
    gameLoop(Aged(gameState, d), lastTimeRef, flashAccumulatorRef, d)

\* The updater's result is the spawn procedure applied to board.
SpawnsOn(result, board) == result = Spawn(board)

\* The boards that the next event can hand to the spawn procedure.
SpawnBoards ==
    LET results == {KeyResult(key) : key \in Keys}
                       \cup {TickResult(d)[1] : d \in FrameDeltas}
    IN  {r.board : r \in {s \in results : s.type = "Spawn"}}

\* The falling piece cannot go one row down.
Blocked ==
    /\ gameState.type = "Falling"
    /\ ~Legal(gameState.board, gameState.falling, Below(gameState.shift))

\* The frames, not the first one, at which the fall interval has elapsed.
DueDeltas ==
    IF lastTimeRef = "set"
    THEN {d \in FrameDeltas : gameState.sinceFall + d >= 700}
    ELSE {}

\* The board with the falling piece locked where it is.
LockedBoard ==
    WithPiece(gameState.board, gameState.falling, gameState.shift)

\* C1: in every reachable Falling state the falling piece, translated by
\* shift, occupies no cell of the locked board and lies inside
\* 0 <= x < 8, 0 <= y < 20.
C1_FallingPieceLegal ==
    gameState.type = "Falling" =>
        Legal(gameState.board, gameState.falling, gameState.shift)

\* A piece that has been moved to the right and down, to the left of a
\* locked cell.
C1_Witness ==
    /\ gameState.type = "Falling"
    /\ gameState.shift[1] > 0
    /\ gameState.shift[2] > 0
    /\ \E c \in Cells(gameState.falling, gameState.shift) :
          <<c[1] + 1, c[2]>> \in DOMAIN gameState.board

\* C2: when a SoftDrop or a due gravity step is rejected, the new locked
\* board is the old one plus the piece's 4 cells at the current shift; with
\* a complete row the next state is Flashing, stage 0, lines the complete
\* rows of that board in ascending order (wholeLines(8, 20)); otherwise it
\* is the result of the spawn procedure on that board.
C2_LockSequence ==
    Blocked =>
        LET B == LockedBoard
            results == {KeyResult("ArrowDown")}
                           \cup {TickResult(d)[1] : d \in DueDeltas}
        IN  /\ Cardinality(DOMAIN B) = Cardinality(DOMAIN gameState.board) + 4
            /\ \A c \in DOMAIN gameState.board : B[c] = gameState.board[c]
            /\ \A r \in results :
                  IF CompleteRows(B) # {}
                  THEN /\ r.type = "Flashing"
                       /\ r.board = B
                       /\ r.stage = 0
                       /\ ListsAscending(r.lines, CompleteRows(B))
                       /\ r.lines = wholeLines(B, 8, 20)
                  ELSE SpawnsOn(r, B)

\* A piece that has been moved; a due gravity step is rejected and the
\* locked piece completes a row.
C2_Witness ==
    /\ Delivered
    /\ Blocked
    /\ gameState.shift # <<0, 0>>
    /\ CompleteRows(LockedBoard) # {}
    /\ \E d \in DueDeltas : TickResult(d)[1].type = "Flashing"

\* C3: when the flashing animation completes, the board handed to the
\* spawn procedure is the Flashing board with the rows of lines deleted and
\* every remaining cell moved down by the number of deleted rows below it,
\* same column and colour; it has 8 x |lines| fewer cells; for 1 to 4 rows,
\* adjacent or not.
C3_ClearedBoard ==
    gameState.type = "Flashing" =>
        \A d \in FrameDeltas :
            LET r == TickResult(d)[1]
            IN  r.type # "Flashing" =>
                    /\ Len(gameState.lines) \in 1..4
                    /\ SpawnsOn(r, Cleared(gameState.board, gameState.lines))
                    /\ Cardinality(DOMAIN r.board) =
                          Cardinality(DOMAIN gameState.board)
                              - 8 * Len(gameState.lines)

\* The animation completes for two rows that are not adjacent.
C3_Witness ==
    /\ gameState.type = "Flashing"
    /\ Len(gameState.lines) = 2
    /\ gameState.lines[2] > gameState.lines[1] + 1
    /\ \E d \in FrameDeltas : TickResult(d)[1].type # "Flashing"

\* C4: the spawn procedure on a board B returns GameOver carrying B exactly
\* when the drawn catalog piece, unrotated at shift (0,0), overlaps B or
\* leaves the playfield; otherwise a Falling state on B whose piece, the
\* drawn one in some orientation, overlaps nothing, whatever rotations
\* collide.  Every draw has a result.
C4_SpawnProcedure ==
    \A B \in SpawnBoards : \A draw \in Draws :
        LET piece == POSSIBLE_PIECES[draw[1]]
            s == createNewFalling(B, draw[1], draw[2])
        IN  IF Legal(B, piece, <<0, 0>>)
            THEN /\ s.type = "Falling"
                 /\ s.board = B
                 /\ s.falling \in Orientations(piece)
                 /\ Legal(B, s.falling, s.shift)
                 /\ Cardinality(DOMAIN s.falling) = 4
                 /\ Colours(s.falling) = Colours(piece)
            ELSE s = [type |-> "GameOver", board |-> B]

\* The next event spawns on a board where a drawn piece fits unrotated but
\* its quarter turn collides, and the spawn procedure keeps it unrotated.
C4_Witness ==
    /\ Delivered
    /\ \E B \in SpawnBoards : \E idx \in 1..Len(POSSIBLE_PIECES) :
          LET piece == POSSIBLE_PIECES[idx]
          IN  /\ B # EmptyBoard
              /\ Legal(B, piece, <<0, 0>>)
              /\ ~Legal(B, Turned(piece, FALSE), <<0, 0>>)
              /\ createNewFalling(B, idx, 1).falling = piece

Delta(key) ==
    CASE key = "ArrowLeft"  -> <<-1, 0>>
      [] key = "ArrowRight" -> <<1, 0>>
      [] key = "ArrowDown"  -> <<0, 1>>

\* C5: in Falling, MoveLeft, MoveRight and SoftDrop set shift to
\* shift + delta if and only if the piece is legal there; a rejected
\* MoveLeft or MoveRight leaves the state unchanged; a rejected SoftDrop,
\* and only that, locks the piece.
C5_Movement ==
    gameState.type = "Falling" =>
        \A key \in {"ArrowLeft", "ArrowRight", "ArrowDown"} :
            LET r == KeyResult(key)
                target == Plus(gameState.shift, Delta(key))
            IN  IF Legal(gameState.board, gameState.falling, target)
                THEN r = [gameState EXCEPT !.shift = target]
                ELSE IF key = "ArrowDown"
                THEN r.type \in {"Flashing", "Spawn"} /\ r.board = LockedBoard
                ELSE r = gameState

\* A piece that has gone down; MoveRight is rejected by a locked cell, not
\* by the wall.
C5_Witness ==
    /\ Delivered
    /\ gameState.type = "Falling"
    /\ gameState.shift[2] > 0
    /\ KeyResult("ArrowRight") = gameState
    /\ InField(Cells(gameState.falling, Plus(gameState.shift, <<1, 0>>)))

\* C6: in Falling, a rotation takes the turned, re-normalised piece at the
\* current shift if it is legal there, else at shift - (1,0) if it is legal
\* there, else leaves the state unchanged; nothing else is tried.
C6_Rotation ==
    gameState.type = "Falling" =>
        \A key \in {" ", "ArrowUp"} :
            LET r == KeyResult(key)
                turned == Turned(gameState.falling, key = " ")
                kicked == Plus(gameState.shift, <<-1, 0>>)
            IN  IF Legal(gameState.board, turned, gameState.shift)
                THEN r = [gameState EXCEPT !.falling = turned]
                ELSE IF Legal(gameState.board, turned, kicked)
                THEN r = [gameState EXCEPT !.falling = turned,
                                           !.shift = kicked]
                ELSE r = gameState

\* A rotation accepted one column to the left.
C6_Witness ==
    /\ Delivered
    /\ gameState.type = "Falling"
    /\ \E key \in {" ", "ArrowUp"} :
          LET r == KeyResult(key)
          IN  /\ r.falling # gameState.falling
              /\ r.shift = Plus(gameState.shift, <<-1, 0>>)

\* C7: in GameOver every tick and every key other than Restart leaves the
\* state unchanged; Restart gives the result of the spawn procedure on a
\* new empty board.
C7_GameOver ==
    gameState.type = "GameOver" =>
        /\ \A key \in Keys \ {"Enter"} : KeyResult(key) = gameState
        /\ \A d \in FrameDeltas : TickResult(d)[1] = gameState
        /\ SpawnsOn(KeyResult("Enter"), EmptyBoard)

\* A finished game on a board that is not empty, where Restart spawns on
\* the empty board.
C7_Witness ==
    /\ gameState.type = "GameOver"
    /\ gameState.board # EmptyBoard
    /\ KeyResult("Enter").type = "Spawn"
    /\ KeyResult("Enter").board = EmptyBoard

\* What C8 says of a tick in a Falling state, for a frame that lets d ms
\* pass.
GravityRule(d) ==
    LET elapsed == gameState.sinceFall + d
        r == TickResult(d)[1]
    IN  /\ elapsed < 700 => r = [gameState EXCEPT !.sinceFall = elapsed]
        /\ elapsed > 700 =>
              IF Legal(gameState.board, gameState.falling,
                       Below(gameState.shift))
              THEN r = [gameState EXCEPT !.shift = Below(gameState.shift),
                                         !.sinceFall = 0]
              ELSE r.type \in {"Flashing", "Spawn"} /\ r.board = LockedBoard

\* C8, as amended: a tick after the first one leaves a Falling state
\* unchanged while less than 700 ms have elapsed since timeSinceFall; with
\* more than 700 ms elapsed it tries one step to shift + (0,1): if legal,
\* that is the new shift and timeSinceFall is the tick's timestamp, board
\* and piece unchanged; if not, the piece is locked where it is.  Never
\* more than one row.
C8_GravityTick ==
    (gameState.type = "Falling" /\ lastTimeRef = "set") =>
        \A d \in FrameDeltas : GravityRule(d)

\* A tick with more than 700 ms elapsed moves the piece one row.
C8_Witness ==
    /\ Delivered
    /\ gameState.type = "Falling"
    /\ lastTimeRef = "set"
    /\ \E d \in FrameDeltas :
          /\ gameState.sinceFall + d > 700
          /\ TickResult(d)[1].type = "Falling"
          /\ TickResult(d)[1].shift = Below(gameState.shift)

\* C8 as stated, of every tick: the first animation frame after mounting
\* is a tick too.
C8_EveryTick ==
    gameState.type = "Falling" => \A d \in FrameDeltas : GravityRule(d)

\* C9: in Flashing, a tick that brings the accumulated time to 50 ms or
\* more adds one to stage (0 becomes 1, and so on), a tick that does not
\* leaves the state unchanged; the 18th increment leaves Flashing, and the
\* recorded rows are gone from the resulting board.
C9_FlashStages ==
    gameState.type = "Flashing" =>
        \A d \in FrameDeltas :
            LET r == TickResult(d)[1]
                accumulated == flashAccumulatorRef + d
            IN  IF accumulated < 50
                THEN r = gameState
                ELSE IF gameState.stage + 1 < 18
                THEN r = [gameState EXCEPT !.stage = gameState.stage + 1]
                ELSE /\ r.type # "Flashing"
                     /\ Cardinality(DOMAIN r.board) =
                           Cardinality(DOMAIN gameState.board)
                               - 8 * Len(gameState.lines)
                     /\ CompleteRows(r.board) = {}

\* The 18th increment.
C9_Witness ==
    /\ gameState.type = "Flashing"
    /\ gameState.stage = 17
    /\ \E d \in FrameDeltas :
          /\ flashAccumulatorRef + d >= 50
          /\ TickResult(d)[1].type = "Spawn"

\* The states that can directly follow this Flashing state, each with the
\* catalog piece whose draw gives it.
AfterFlashing ==
    UNION {{<<Resolved(r, draw), POSSIBLE_PIECES[draw[1]]>> : draw \in Draws} :
              r \in {s \in {TickResult(d)[1] : d \in FrameDeltas} :
                        s.type # "Flashing"}}

\* C10, as amended: the state that directly follows Flashing is the result
\* of the spawn procedure on the cleared board: a fresh Falling state, or
\* GameOver when the drawn piece, unrotated at shift (0,0), overlaps that
\* board.
C10_AfterFlashing ==
    gameState.type = "Flashing" =>
        \A after \in AfterFlashing :
            LET s == after[1]
            IN  /\ CompleteRows(s.board) = {}
                /\ IF Legal(s.board, after[2], <<0, 0>>)
                   THEN /\ s.type = "Falling"
                        /\ s.sinceFall = 0
                        /\ Legal(s.board, s.falling, s.shift)
                   ELSE s.type = "GameOver"

\* The flashing animation can be followed by GameOver.
C10_Witness ==
    /\ gameState.type = "Flashing"
    /\ \E after \in AfterFlashing : after[1].type = "GameOver"

\* C10 as stated: the state that directly follows Flashing is Falling.
C10_AlwaysFalling ==
    gameState.type = "Flashing" =>
        \A after \in AfterFlashing : after[1].type = "Falling"

\* C11: killLine(y) returns a new board: a cell of a row < y is found one
\* row further, same column and colour; a cell of a row > y is found where
\* it was, same colour; the result has no other cell, so nothing of row y
\* remains; the board it is called on keeps its contents.
C11_KillLine ==
    call.method = "killLine" =>
        LET A == call.this
            y == call.y
        IN  /\ ~returned.isNull
            /\ \A pos \in DOMAIN A :
                  /\ pos[2] < y =>
                        /\ <<pos[1], pos[2] + 1>> \in DOMAIN returned.board
                        /\ returned.board[<<pos[1], pos[2] + 1>>] = A[pos]
                  /\ pos[2] > y =>
                        /\ pos \in DOMAIN returned.board
                        /\ returned.board[pos] = A[pos]
            /\ Cardinality(DOMAIN returned.board) =
                  Cardinality({pos \in DOMAIN A : pos[2] # y})
            /\ thisBoard = A

\* killLine(1) was called on a board with cells in rows 0, 1 and 2.
C11_Witness ==
    /\ call.method = "killLine"
    /\ call.y = 1
    /\ {pos[2] : pos \in DOMAIN call.this} = {0, 1, 2}
    /\ returned.board # call.this

\* The one-column board (0,0)=Red, (0,1)=Green, (0,2)=Blue.
RedGreenBlue ==
    (<<0, 0>> :> "Red") @@ (<<0, 1>> :> "Green") @@ (<<0, 2>> :> "Blue")

\* C12, as amended: on the board (0,0)=Red, (0,1)=Green, (0,2)=Blue,
\* killLine(1) yields (0,1)=Red (row 0 moved into row 1) and (0,2)=Blue
\* unchanged, and no cell at row 0.
C12_KillLineExample ==
    (call.method = "killLine" /\ call.this = RedGreenBlue /\ call.y = 1) =>
        returned.board = (<<0, 1>> :> "Red") @@ (<<0, 2>> :> "Blue")

\* killLine(1) was called on that board.
C12_Witness ==
    /\ call.method = "killLine"
    /\ call.this = RedGreenBlue
    /\ call.y = 1
    /\ ~returned.isNull

\* C12 as stated: killLine(1) yields (0,0)=Red unchanged, (0,1)=Blue and
\* no cell at row 2.
C12_AsStated ==
    (call.method = "killLine" /\ call.this = RedGreenBlue /\ call.y = 1) =>
        returned.board = (<<0, 0>> :> "Red") @@ (<<0, 1>> :> "Blue")

\* C13: A.merged(B) signals a collision if and only if some position is
\* occupied in both; otherwise it returns a board whose cells are the cells
\* of A and the cells of B, each in its colour; A and B keep their
\* contents in both cases.
C13_Merged ==
    call.method = "merged" =>
        LET A == call.this
            B == call.other
        IN  /\ returned.isNull <=> DOMAIN A \cap DOMAIN B # {}
            /\ ~returned.isNull =>
                  /\ DOMAIN returned.board = DOMAIN A \cup DOMAIN B
                  /\ \A pos \in DOMAIN A : returned.board[pos] = A[pos]
                  /\ \A pos \in DOMAIN B : returned.board[pos] = B[pos]
            /\ thisBoard = A
            /\ otherBoard = B

\* A merge of two boards that share one cell of the argument's two.
C13_Witness ==
    /\ call.method = "merged"
    /\ returned.isNull
    /\ Cardinality(DOMAIN call.other) = 2
    /\ Cardinality(DOMAIN call.this \cap DOMAIN call.other) = 1

\* C14: A.merged(B) fails if and only if B.merged(A) fails; when both
\* succeed the two results have the same cells in the same colours.
C14_MergedSymmetric ==
    call.method = "merged" =>
        LET back == mergedCall(call.other, call.this).returned
        IN  /\ returned.isNull <=> back.isNull
            /\ ~returned.isNull => returned.board = back.board

\* A successful merge of two boards that both have cells.
C14_Witness ==
    /\ call.method = "merged"
    /\ ~returned.isNull
    /\ call.this # EmptyBoard
    /\ call.other # EmptyBoard

\* C15: whenever the lock sequence runs, merging the falling piece at its
\* current shift into the locked board succeeds: in a reachable Falling
\* state the merge is not null, a rejected SoftDrop never returns the state
\* unchanged, and no tick returns GameOver.
C15_LockMergeSucceeds ==
    gameState.type = "Falling" =>
        /\ ~merged(gameState.board,
                   shifted(gameState.falling, gameState.shift)).isNull
        /\ Blocked => KeyResult("ArrowDown").type \in {"Flashing", "Spawn"}
        /\ \A d \in FrameDeltas : TickResult(d)[1].type # "GameOver"

\* A piece that has been moved and can go no further down: SoftDrop and a
\* due gravity step both lock it, completing no row.
C15_Witness ==
    /\ Delivered
    /\ Blocked
    /\ gameState.shift # <<0, 0>>
    /\ KeyResult("ArrowDown").type = "Spawn"
    /\ \E d \in DueDeltas : TickResult(d)[1].type = "Spawn"

\* C16: in every reachable Flashing state lines is not empty, strictly
\* ascending and lists exactly the complete rows of the Flashing board, and
\* 0 <= stage < 18; whatever key or tick comes, if the state is still
\* Flashing afterwards it has the same board and the same lines.
C16_FlashingState ==
    gameState.type = "Flashing" =>
        /\ Len(gameState.lines) >= 1
        /\ ListsAscending(gameState.lines, CompleteRows(gameState.board))
        /\ 0 <= gameState.stage /\ gameState.stage < 18
        /\ \A r \in {KeyResult(key) : key \in Keys}
                      \cup {TickResult(d)[1] : d \in FrameDeltas} :
              r.type = "Flashing" =>
                  r.board = gameState.board /\ r.lines = gameState.lines

\* Half-way through the animation of several rows, when a tick advances
\* the stage.
C16_Witness ==
    /\ gameState.type = "Flashing"
    /\ gameState.stage = 9
    /\ Len(gameState.lines) >= 2
    /\ \E d \in FrameDeltas : TickResult(d)[1].stage = 10

\* The greatest row of a cell.
LowestRow(cells) ==
    CHOOSE m \in {c[2] : c \in cells} : \A c \in cells : c[2] <= m

\* C17: from the empty board with a freshly spawned piece, SoftDrop and
\* nothing else locks the piece after at most 20 commands.  Under DropSpec
\* a piece on the empty board with shift y = n has received n commands:
\* while it is not blocked the next command takes it one row down, and when
\* it is blocked the next command, at most the 20th, locks it; the locked
\* board is inside 8 x 20 and is exactly the piece's 4 cells at its shift,
\* the lowest in row 19.
C17_SoftDropToFloor ==
    (gameState.type = "Falling" /\ gameState.board = EmptyBoard) =>
        LET r == KeyResult("ArrowDown")
        IN  IF Blocked
            THEN /\ gameState.shift[2] + 1 <= 20
                 /\ r.type = "Spawn"
                 /\ InField(DOMAIN r.board)
                 /\ DOMAIN r.board =
                       Cells(gameState.falling, gameState.shift)
                 /\ Cardinality(DOMAIN r.board) = 4
                 /\ LowestRow(DOMAIN r.board) = 19
            ELSE r = [gameState EXCEPT !.shift = Below(gameState.shift)]

\* A piece lying flat on the floor after 19 commands: the 20th locks it.
C17_Witness ==
    /\ gameState.type = "Falling"
    /\ gameState.board = EmptyBoard
    /\ locks = 0
    /\ gameState.shift[2] = 19
    /\ KeyResult("ArrowDown").type = "Spawn"

\* What useState's initialiser can return (lines 147-149).
InitialStates ==
    {createNewFalling(EmptyBoard, draw[1], draw[2]) : draw \in Draws}

\* What Restart can produce in this state.
RestartStates == {Resolved(KeyResult("Enter"), draw) : draw \in Draws}

\* C18: the initial state, and the state produced by Restart from
\* GameOver, is a Falling state, never GameOver, with an empty locked board
\* and shift (0,0), whatever piece and rotations are drawn.
C18_FreshGame ==
    \A s \in InitialStates
              \cup (IF gameState.type = "GameOver" THEN RestartStates ELSE {}) :
        /\ s.type = "Falling"
        /\ s.board = EmptyBoard
        /\ s.shift = <<0, 0>>

\* A finished game on a board that is not empty, from which Restart can
\* produce a piece that the spawn procedure has rotated.
C18_Witness ==
    /\ gameState.type = "GameOver"
    /\ gameState.board # EmptyBoard
    /\ KeyResult("Enter").type = "Spawn"
    /\ \E s \in RestartStates :
          \A idx \in 1..Len(POSSIBLE_PIECES) : s.falling # POSSIBLE_PIECES[idx]

\* C19: between the event that enters Flashing and the tick that removes
\* the rows, at least 18 x 50 = 900 ms of tick time elapse.
C19_FlashLasts900 ==
    gameState.type = "Flashing" =>
        \A d \in FrameDeltas :
            TickResult(d)[1].type # "Flashing" => flashTime + d >= 18 * 50

\* The keys that are commands in Falling: the moves and the rotations.
FallingCommands == {"ArrowLeft", "ArrowRight", "ArrowDown", "ArrowUp", " "}

\* C20: every key received while Flashing, and Restart or an unrecognised
\* key received while Falling, returns the state unchanged.  The keydown
\* handler writes nothing but the state it returns, so nothing of the key
\* is left for later.
C20_IgnoredInput ==
    /\ gameState.type = "Flashing" =>
          \A key \in Keys : KeyResult(key) = gameState
    /\ gameState.type = "Falling" =>
          \A key \in Keys \ FallingCommands : KeyResult(key) = gameState

\* Keys arrive in the middle of the flashing animation.
C20_Witness ==
    /\ gameState.type = "Flashing"
    /\ gameState.stage = 5
    /\ flashAccumulatorRef = 25
    /\ KeyResult("Enter") = gameState
    /\ KeyResult("ArrowDown") = gameState

\* C21: the render derivation returns, in Falling, the locked board united
\* with the falling piece at shift (|board| + 4 cells, never the bare
\* board) with effect None; in Flashing, the Flashing board with effect
\* Flash{lines} when stage is odd and None when it is even; in GameOver,
\* the board with effect Darker.
C21_RenderProps ==
    LET r == getRenderProps(gameState)
    IN  /\ gameState.type = "Falling" =>
              /\ r.board = LockedBoard
              /\ Cardinality(DOMAIN r.board) =
                    Cardinality(DOMAIN gameState.board) + 4
              /\ r.drawEffect = [type |-> "None"]
        /\ gameState.type = "Flashing" =>
              /\ r.board = gameState.board
              /\ r.drawEffect =
                    IF \E n \in 0..9 : gameState.stage = 2 * n + 1
                    THEN [type |-> "Flash", lines |-> gameState.lines]
                    ELSE [type |-> "None"]
        /\ gameState.type = "GameOver" =>
              /\ r.board = gameState.board
              /\ r.drawEffect = [type |-> "Darker"]

\* The last, odd stage of a flash of several rows is rendered.
C21_Witness ==
    /\ gameState.type = "Flashing"
    /\ gameState.stage = 17
    /\ Len(gameState.lines) >= 2
    /\ getRenderProps(gameState).drawEffect.type = "Flash"

\* The board with every cell moved by a quarter turn about the origin,
\* colours kept: clockwise (x, y) -> (-y, x), counter-clockwise
\* (x, y) -> (y, -x).
QuarterTurn(board, clockwise) ==
    LET to(c) == IF clockwise THEN <<-c[2], c[1]>> ELSE <<c[2], -c[1]>>
    IN  [q \in {to(c) : c \in DOMAIN board} |->
            board[CHOOSE c \in DOMAIN board : to(c) = q]]

\* C22: rotated() maps the cell at (x, y) to (-y, x), colour kept, and the
\* three rotated() calls that follow it give back a board with exactly the
\* cells and colours of the first receiver.
C22_FourRotations ==
    call.method = "rotated" =>
        /\ returned.board = QuarterTurn(call.this, TRUE)
        /\ rotated(rotated(rotated(returned.board))) = call.this

\* rotated() was called on a board of several cells that no half turn
\* leaves in place.
C22_Witness ==
    /\ call.method = "rotated"
    /\ Cardinality(DOMAIN call.this) >= 3
    /\ returned.board # call.this
    /\ rotated(returned.board) # call.this

\* C23: rotatedCounter() has the cells and colours of three rotated()
\* calls, that is of the quarter turn (x, y) -> (y, -x); rotated() after
\* rotatedCounter(), and rotatedCounter() after rotated(), give back the
\* receiver.
C23_RotatedCounter ==
    call.method = "rotatedCounter" =>
        /\ returned.board = rotated(rotated(rotated(call.this)))
        /\ returned.board = QuarterTurn(call.this, FALSE)
        /\ rotated(returned.board) = call.this
        /\ rotatedCounter(rotated(call.this)) = call.this

\* rotatedCounter() was called on a board of several cells and returned
\* another board than rotated() returns.
C23_Witness ==
    /\ call.method = "rotatedCounter"
    /\ Cardinality(DOMAIN call.this) >= 3
    /\ returned.board # rotated(call.this)

\* The rows y of 0..(h-1) that have a cell in every column of 0..(w-1).
FullRows(board, w, h) ==
    {y \in 0..(h - 1) : \A x \in 0..(w - 1) : <<x, y>> \in DOMAIN board}

\* The cells of board that lie in the w x h rectangle.
Inside(board, w, h) ==
    [c \in {d \in DOMAIN board : d[1] \in 0..(w - 1) /\ d[2] \in 0..(h - 1)}
        |-> board[c]]

\* A 4 x 3 grid of which only row 1 is full.
OnlyRowOneFull ==
    [c \in ({0, 1, 2, 3} \X {1}) \cup {<<0, 0>>, <<2, 0>>, <<1, 2>>, <<3, 2>>}
        |-> "Red"]

\* C24: wholeLines(w, h) lists, strictly ascending and so without
\* duplicates, exactly the rows of 0..(h-1) in which every column of
\* 0..(w-1) is occupied; the cells outside the w x h rectangle do not
\* change the list; a 4 x 3 grid with only row 1 full gives [1].
C24_WholeLines ==
    /\ call.method = "wholeLines" =>
           /\ ListsAscending(returned.lines, FullRows(call.this, call.w, call.h))
           /\ returned.lines
                = wholeLines(Inside(call.this, call.w, call.h), call.w, call.h)
    /\ wholeLines(OnlyRowOneFull, 4, 3) = <<1>>

\* wholeLines found two full rows with a row that is not full between
\* them, on a board with a cell outside the rectangle it was asked about.
C24_Witness ==
    /\ call.method = "wholeLines"
    /\ returned.lines = <<0, 2>>
    /\ Inside(call.this, call.w, call.h) # call.this

\* C25: in every reachable state, Falling, Flashing or GameOver, every
\* cell of the locked board has 0 <= x < 8 and 0 <= y < 20.
C25_BoardInPlayfield ==
    /\ gameState.type \in {"Falling", "Flashing", "GameOver"}
    /\ InField(DOMAIN gameState.board)

\* The last frame of a flash: it deletes a complete row that has locked
\* cells above it and below it, and spawns the next piece.
C25_Witness ==
    /\ gameState.type = "Flashing"
    /\ locks = 1
    /\ \E y \in CompleteRows(gameState.board) :
           \E above, below \in DOMAIN gameState.board :
               above[2] < y /\ below[2] > y
    /\ \E d \in FrameDeltas :
           /\ TickResult(d)[1].type = "Spawn"
           /\ TickResult(d)[1].board = Cleared(gameState.board, gameState.lines)

\* C26: in every reachable Falling or GameOver state the locked board has
\* no complete row: a board with complete rows is held by Flashing states
\* only, and the frame that ends the flash hands the spawn procedure a
\* board without any.
C26_NoCompleteRow ==
    /\ gameState.type \in {"Falling", "GameOver"} =>
           CompleteRows(gameState.board) = {}
    /\ gameState.type = "Flashing" =>
           \A d \in FrameDeltas :
               TickResult(d)[1].type # "Flashing" =>
                   CompleteRows(TickResult(d)[1].board) = {}

\* The last frame of a flash of several complete rows: the piece that
\* follows is spawned on what is left of the board.
C26_Witness ==
    /\ gameState.type = "Flashing"
    /\ Cardinality(CompleteRows(gameState.board)) >= 2
    /\ \E d \in FrameDeltas :
           /\ TickResult(d)[1].type = "Spawn"
           /\ DOMAIN TickResult(d)[1].board # {}
           /\ CompleteRows(TickResult(d)[1].board) = {}

\* The pieces of the catalog in their four orientations.
CatalogOrientations ==
    UNION {Orientations(POSSIBLE_PIECES[i]) : i \in 1..Len(POSSIBLE_PIECES)}

\* state's falling piece has exactly 4 cells of one colour, is a catalog
\* shape in one of its four orientations, has least x 0 and least y 0, and
\* state's shift has no negative coordinate.
WellFormedPiece(state) ==
    /\ Cardinality(DOMAIN state.falling) = 4
    /\ Cardinality(Colours(state.falling)) = 1
    /\ state.falling \in CatalogOrientations
    /\ LowestCoordinate(DOMAIN state.falling, 1) = 0
    /\ LowestCoordinate(DOMAIN state.falling, 2) = 0
    /\ state.shift[1] >= 0
    /\ state.shift[2] >= 0

\* C27: in every reachable Falling state the falling piece has exactly 4
\* cells of a single colour, is one of the 7 catalog shapes in one of its
\* four orientations and has minimum x = 0 and minimum y = 0 in local
\* coordinates, and shift has x >= 0 and y >= 0.
C27_FallingPieceShape ==
    /\ Len(POSSIBLE_PIECES) = 7
    /\ gameState.type = "Falling" => WellFormedPiece(gameState)

\* A piece away from the left wall and from the top, in an orientation
\* that is not the catalog's, which both rotation keys turn.
C27_Witness ==
    /\ gameState.type = "Falling"
    /\ Delivered
    /\ gameState.shift[1] > 0
    /\ gameState.shift[2] > 0
    /\ \A i \in 1..Len(POSSIBLE_PIECES) : gameState.falling # POSSIBLE_PIECES[i]
    /\ \A key \in {"ArrowUp", " "} :
           /\ KeyResult(key).type = "Falling"
           /\ KeyResult(key).falling # gameState.falling

\* The orientation left by n spawn rotations of piece on board: each one
\* takes the quarter turn if it is legal at (0,0) and keeps the
\* orientation it had otherwise.
RECURSIVE SpawnOrientation(_, _, _)
SpawnOrientation(board, piece, n) ==
    IF n = 0 THEN piece
    ELSE LET turned == Turned(piece, FALSE)
         IN  SpawnOrientation(board,
                              IF Legal(board, turned, <<0, 0>>)
                              THEN turned ELSE piece,
                              n - 1)

\* C28: on every board that the next event hands to the spawn procedure,
\* a draw whose catalog piece is legal at (0,0) gives a Falling state with
\* shift (0,0), whatever the rotations: the (-1,0) kick is never taken, and
\* an orientation that does not fit at (0,0) is skipped, the orientation
\* before it kept, without GameOver.  No other draw gives a Falling state.
C28_SpawnShift ==
    \A board \in SpawnBoards :
        \A draw \in Draws :
            LET s == createNewFalling(board, draw[1], draw[2])
                piece == POSSIBLE_PIECES[draw[1]]
            IN  IF Legal(board, piece, <<0, 0>>)
                THEN s = [type |-> "Falling", board |-> board,
                          falling |-> SpawnOrientation(board, piece, draw[2]),
                          shift |-> <<0, 0>>, sinceFall |-> 0]
                ELSE s.type # "Falling"

\* A lock after which the spawn procedure is to turn a piece three times
\* and skips a quarter turn that does not fit at (0,0), but takes a later
\* one.
C28_Witness ==
    /\ gameState.type = "Falling"
    /\ Delivered
    /\ gameState.shift # <<0, 0>>
    /\ \E board \in SpawnBoards :
           \E idx \in 1..Len(POSSIBLE_PIECES) :
               LET piece == POSSIBLE_PIECES[idx]
                   s == createNewFalling(board, idx, 3)
               IN  /\ Legal(board, piece, <<0, 0>>)
                   /\ \E n \in 0..2 :
                          ~Legal(board,
                                 Turned(SpawnOrientation(board, piece, n), FALSE),
                                 <<0, 0>>)
                   /\ s.type = "Falling"
                   /\ s.falling # piece
                   /\ s.shift = <<0, 0>>

\* No key resets timeSinceFall or takes the piece up.
NoPostponing ==
    gameState.type = "Falling" =>
        \A key \in Keys :
            KeyResult(key).type = "Falling" =>
                /\ KeyResult(key).sinceFall = gameState.sinceFall
                /\ KeyResult(key).shift[2] >= gameState.shift[2]

\* C29: while frames keep coming, each with a later timestamp than the one
\* before, every falling piece is locked in the end, whatever keys are
\* pressed between the frames; no key resets timeSinceFall or decreases
\* the y of shift.
C29_PieceLocks ==
    /\ []NoPostponing
    /\ \A n \in 0..(MaxLocks - 1) :
           (gameState.type = "Falling" /\ locks = n) ~> (locks > n)

\* A piece of the empty board that was taken to the right wall and has
\* been locked on the floor.
C29_Witness ==
    /\ locks = 1
    /\ gameState.type = "Falling"
    /\ Cardinality(DOMAIN gameState.board) = 4
    /\ \E c \in DOMAIN gameState.board : c[1] = 7 /\ c[2] = 19

\* C30: while frames keep coming, each with a later timestamp than the one
\* before, every Flashing state is left in the end, for Falling or for
\* GameOver, whatever keys are pressed meanwhile.
C30_FlashEnds ==
    (gameState.type = "Flashing") ~> (gameState.type \in {"Falling", "GameOver"})

\* The piece that follows a flash: the locked board has fewer cells than
\* the board the game was taken up with, and is not empty.
C30_Witness ==
    /\ locks = 1
    /\ gameState.type = "Falling"
    /\ gameState.board # EmptyBoard
    /\ \A b \in MidGameBoards :
           Cardinality(DOMAIN gameState.board) < Cardinality(DOMAIN b)

\* The command was accepted: the piece is still the falling one, and it
\* has been moved or turned.
Accepted(key) ==
    /\ KeyResult(key).type = "Falling"
    /\ \/ KeyResult(key).shift # gameState.shift
       \/ KeyResult(key).falling # gameState.falling

\* C32: an accepted MoveLeft, MoveRight or SoftDrop changes shift and
\* nothing else, an accepted rotation changes the falling piece and shift
\* and nothing else: the locked board and timeSinceFall stay as they were.
C32_AcceptedCommand ==
    gameState.type = "Falling" =>
        /\ \A key \in MoveKeys :
               Accepted(key) =>
                   KeyResult(key) = [gameState EXCEPT !.shift = KeyResult(key).shift]
        /\ \A key \in {"ArrowUp", " "} :
               Accepted(key) =>
                   KeyResult(key) = [gameState EXCEPT
                                        !.falling = KeyResult(key).falling,
                                        !.shift = KeyResult(key).shift]

\* Part of the fall interval has elapsed on a piece that has gone down:
\* SoftDrop, a move to the side and a rotation are accepted.
C32_Witness ==
    /\ gameState.type = "Falling"
    /\ Delivered
    /\ gameState.sinceFall > 0
    /\ gameState.shift[2] > 0
    /\ Accepted("ArrowDown")
    /\ Accepted("ArrowLeft") \/ Accepted("ArrowRight")
    /\ Accepted("ArrowUp") /\ KeyResult("ArrowUp").falling # gameState.falling

\* C33: a tick processed in Flashing increases stage by one at most, also
\* when the elapsed time spans several stage durations of 50 ms, and
\* leaves the flash accumulator in [0, 50).
C33_OneStagePerTick ==
    (gameState.type = "Flashing" /\ lastTimeRef = "set") =>
        \A d \in FrameDeltas :
            /\ 0 <= TickResult(d)[2]
            /\ TickResult(d)[2] < 50
            /\ TickResult(d)[1].type = "Flashing" =>
                   /\ TickResult(d)[1].stage >= gameState.stage
                   /\ TickResult(d)[1].stage <= gameState.stage + 1

\* A flash under way with 25 ms in the accumulator: a tick after 125 ms,
\* three stage durations in all, goes one stage on and leaves 0 ms.
C33_Witness ==
    /\ gameState.type = "Flashing"
    /\ lastTimeRef = "set"
    /\ gameState.stage > 0
    /\ flashAccumulatorRef = 25
    /\ 125 \in FrameDeltas
    /\ TickResult(125)[1].type = "Flashing"
    /\ TickResult(125)[1].stage = gameState.stage + 1
    /\ TickResult(125)[2] = 0

\* From shift from to shift to, the piece has not gone up, and has gone
\* one column to the side, or one row down, or has stayed.
OneCell(from, to) ==
    LET dx == to[1] - from[1]
        dy == to[2] - from[2]
    IN  /\ dy >= 0
        /\ <<dx, dy>> \in {<<0, 0>>, <<-1, 0>>, <<1, 0>>, <<0, 1>>}

\* C34: while one piece is falling, no event, tick or key, decreases the y
\* of shift, and every event changes shift by 1 at most in x or by 1 at
\* most in y, never in both.
C34_OneCellPerEvent ==
    gameState.type = "Falling" =>
        /\ \A key \in Keys :
               KeyResult(key).type = "Falling" =>
                   OneCell(gameState.shift, KeyResult(key).shift)
        /\ \A d \in FrameDeltas :
               TickResult(d)[1].type = "Falling" =>
                   OneCell(gameState.shift, TickResult(d)[1].shift)

\* A piece away from the left wall: a rotation is accepted one column to
\* the left, SoftDrop and a move to the right are accepted, and a frame
\* longer than the fall interval takes the piece one row down.
C34_Witness ==
    /\ gameState.type = "Falling"
    /\ Delivered
    /\ lastTimeRef = "set"
    /\ \E key \in {"ArrowUp", " "} :
           /\ KeyResult(key).type = "Falling"
           /\ KeyResult(key).shift = Plus(gameState.shift, <<-1, 0>>)
    /\ KeyResult("ArrowDown") = [gameState EXCEPT !.shift = Below(gameState.shift)]
    /\ \E d \in FrameDeltas :
           /\ gameState.sinceFall + d > 700
           /\ TickResult(d)[1].type = "Falling"
           /\ TickResult(d)[1].shift = Below(gameState.shift)

\* The rotation keys: RotateCW and RotateCCW, each with the key of the
\* opposite rotation.
Opposite == [k \in {" ", "ArrowUp"} |-> IF k = " " THEN "ArrowUp" ELSE " "]

\* The rotation of key is legal at the current shift, without wall-kick.
FitsInPlace(key) ==
    Legal(gameState.board, Turned(gameState.falling, key = " "), gameState.shift)

\* C35: a RotateCW accepted at the current shift, without wall-kick, and
\* followed at once by RotateCCW gives back the falling piece and the
\* shift, and the whole state, as they were: the second rotation is
\* accepted.  The same holds of RotateCCW followed by RotateCW.
C35_RotationUndone ==
    gameState.type = "Falling" =>
        \A key \in DOMAIN Opposite :
            FitsInPlace(key) =>
                /\ KeyResult(key).shift = gameState.shift
                /\ KeyResult(key).falling = Turned(gameState.falling, key = " ")
                /\ handleKeyDown(KeyResult(key), Opposite[key]) = gameState

\* A piece that has been moved to the right, over a board that is not
\* empty: either rotation is accepted in place and changes the piece, and
\* the opposite rotation of the turned piece would fit one column to the
\* left as well.
C35_Witness ==
    /\ gameState.type = "Falling"
    /\ Delivered
    /\ gameState.shift[1] > 0
    /\ gameState.board # EmptyBoard
    /\ \A key \in DOMAIN Opposite :
           /\ FitsInPlace(key)
           /\ KeyResult(key).falling # gameState.falling
           /\ Legal(gameState.board, gameState.falling,
                    Plus(gameState.shift, <<-1, 0>>))

\* No cell of cells lies to the right of column 3.
InLeftHalf(cells) == \A c \in cells : c[1] \in 0..3

====
